---- MODULE Spec2Model ----
(***************************************************************************)
(* Model of the Alpha Vantage MCP server: the service functions            *)
(* getStockData / formatTimeSeriesData / getStockAlerts, the HttpService   *)
(* response interceptor, and the tool and resource handlers registered by  *)
(* createAlphaVantageMcpServer.                                            *)
(*                                                                         *)
(* Text is modelled as sequences of one-character strings wherever the     *)
(* code inspects or converts it (object keys, symbols, close prices), and  *)
(* as sequences of fragments where the code only concatenates.  Numbers    *)
(* are exact rationals n/d plus NaN and +/-Infinity; the rounding of IEEE  *)
(* doubles is not modelled.                                                *)
(***************************************************************************)
EXTENDS Integers, Sequences, FiniteSets, TLC

VARIABLES
    pc,        \* "idle", "awaiting" (suspended in httpService.get), "done"
    call,      \* the handler that was entered and its arguments
    frame,     \* the locals of the running service function
    requests,  \* the GET requests issued so far
    reply,     \* how httpService.get settled
    outcome,   \* what the service function returned or threw
    response,  \* what the handler returned or threw
    warnings,  \* number of console.warn calls
    compared,  \* the (currentDate, previousDate) pairs the alert loop read
    proc,      \* the process: its phase, environment, exit status and stderr
    peer,      \* a second invocation in flight beside the first
    loggers    \* the Logger class: its registry, the Logger objects built so
               \* far, and the static calls made on it

vars == <<pc, call, frame, requests, reply, outcome, response, warnings, compared,
          proc, peer, loggers>>

(* Number of distinct keys the upstream may put in one time series. *)
MaxKeys == 12

----------------------------------------------------------------------------
(* Characters and strings *)

Digits == <<"0", "1", "2", "3", "4", "5", "6", "7", "8", "9">>

Lower == <<"a", "b", "c", "d", "e", "f", "g", "h", "i", "j", "k", "l", "m",
           "n", "o", "p", "q", "r", "s", "t", "u", "v", "w", "x", "y", "z">>

Upper == <<"A", "B", "C", "D", "E", "F", "G", "H", "I", "J", "K", "L", "M",
           "N", "O", "P", "Q", "R", "S", "T", "U", "V", "W", "X", "Y", "Z">>

IsDigit(c) == \E i \in 1..10 : Digits[i] = c

DigitVal(c) == (CHOOSE i \in 1..10 : Digits[i] = c) - 1

(* UTF-16 code unit of the characters that occur in object keys. *)
CodeUnit(c) ==
    IF IsDigit(c) THEN 48 + DigitVal(c)
    ELSE IF c = " " THEN 32
    ELSE IF c = "-" THEN 45
    ELSE IF c = ":" THEN 58
    ELSE 65

(* String.prototype.toUpperCase on one character. *)
UpperChar(c) ==
    IF \E i \in 1..26 : Lower[i] = c
    THEN Upper[CHOOSE i \in 1..26 : Lower[i] = c]
    ELSE c

ToUpperCase(s) == [i \in 1..Len(s) |-> UpperChar(s[i])]

RECURSIVE NatToStr(_)
NatToStr(n) ==
    IF n < 10 THEN <<Digits[n + 1]>>
    ELSE NatToStr(n \div 10) \o <<Digits[(n % 10) + 1]>>

(* The default comparison of Array.prototype.sort: by code units, a proper *)
(* prefix before the longer string.                                        *)
RECURSIVE StrLess(_, _)
StrLess(a, b) ==
    IF a = <<>> THEN b # <<>>
    ELSE IF b = <<>> THEN FALSE
    ELSE IF CodeUnit(Head(a)) # CodeUnit(Head(b))
         THEN CodeUnit(Head(a)) < CodeUnit(Head(b))
         ELSE StrLess(Tail(a), Tail(b))

----------------------------------------------------------------------------
(* Arrays *)

RECURSIVE InsertSorted(_, _)
InsertSorted(x, s) ==
    IF s = <<>> THEN <<x>>
    ELSE IF StrLess(x, Head(s)) THEN <<x>> \o s
    ELSE <<Head(s)>> \o InsertSorted(x, Tail(s))

RECURSIVE ArraySort(_)
ArraySort(s) ==
    IF s = <<>> THEN <<>>
    ELSE InsertSorted(Head(s), ArraySort(Tail(s)))

ArrayReverse(s) == [i \in 1..Len(s) |-> s[Len(s) + 1 - i]]

(* Array.prototype.slice(0, n) *)
SliceFromStart(s, n) == SubSeq(s, 1, IF Len(s) < n THEN Len(s) ELSE n)

(* The elements of S in some order. *)
RECURSIVE SetToSeq(_)
SetToSeq(S) ==
    IF S = {} THEN <<>>
    ELSE LET x == CHOOSE y \in S : TRUE IN <<x>> \o SetToSeq(S \ {x})

(* Object.keys: the own keys of the object, in the order the object holds  *)
(* them, which is the order the reply listed them in.                      *)
ObjectKeys(obj) == obj.order

----------------------------------------------------------------------------
(* Numbers: NaN, +/-Infinity, or the exact rational n/d with d > 0 *)

NaN == [k |-> "nan", n |-> 0, d |-> 1]

Inf(sign) == [k |-> "inf", n |-> sign, d |-> 1]

Fin(n, d) == [k |-> "fin", n |-> n, d |-> d]

RECURSIVE Gcd(_, _)
Gcd(a, b) == IF b = 0 THEN a ELSE Gcd(b, a % b)

(* n/d in lowest terms with a positive denominator (d # 0) *)
Reduced(n, d) ==
    LET an == IF n < 0 THEN -n ELSE n
        ad == IF d < 0 THEN -d ELSE d
        g  == Gcd(an, ad)
    IN  Fin((IF d < 0 THEN -n ELSE n) \div g, ad \div g)

RECURSIVE DigitPrefix(_)
DigitPrefix(s) ==
    IF s # <<>> /\ IsDigit(Head(s)) THEN <<Head(s)>> \o DigitPrefix(Tail(s))
    ELSE <<>>

RECURSIVE DigitsValue(_)
DigitsValue(s) ==
    IF s = <<>> THEN 0
    ELSE 10 * DigitsValue(SubSeq(s, 1, Len(s) - 1)) + DigitVal(s[Len(s)])

RECURSIVE Pow10(_)
Pow10(e) == IF e = 0 THEN 1 ELSE 10 * Pow10(e - 1)

(* parseFloat on an unsigned decimal literal without exponent: the longest *)
(* prefix digits[.digits] is converted, anything else gives NaN.           *)
ParseFloat(s) ==
    LET ip   == DigitPrefix(s)
        rest == SubSeq(s, Len(ip) + 1, Len(s))
        fp   == IF rest # <<>> /\ Head(rest) = "." THEN DigitPrefix(Tail(rest))
                ELSE <<>>
    IN  IF ip = <<>> /\ fp = <<>> THEN NaN
        ELSE Fin(DigitsValue(ip) * Pow10(Len(fp)) + DigitsValue(fp), Pow10(Len(fp)))

NumSub(a, b) ==
    IF a.k # "fin" \/ b.k # "fin" THEN NaN
    ELSE Reduced(a.n * b.d - b.n * a.d, a.d * b.d)

(* a / b for finite a and finite b >= 0 *)
NumDiv(a, b) ==
    IF a.k # "fin" \/ b.k # "fin" THEN NaN
    ELSE IF b.n = 0
         THEN IF a.n = 0 THEN NaN ELSE IF a.n > 0 THEN Inf(1) ELSE Inf(-1)
         ELSE Reduced(a.n * b.d, a.d * b.n)

NumTimes(a, m) ==
    IF a.k = "fin" THEN Reduced(a.n * m, a.d) ELSE a

(* Math.abs *)
MathAbs(a) ==
    IF a.k = "fin" THEN Fin(IF a.n < 0 THEN -a.n ELSE a.n, a.d)
    ELSE IF a.k = "inf" THEN Inf(1)
    ELSE a

(* a >= t for an integer t; every comparison with NaN is false *)
NumGeq(a, t) ==
    IF a.k = "nan" THEN FALSE
    ELSE IF a.k = "inf" THEN a.n > 0
    ELSE a.n >= t * a.d

(* a > t for an integer t *)
NumGt(a, t) ==
    IF a.k = "nan" THEN FALSE
    ELSE IF a.k = "inf" THEN a.n > 0
    ELSE a.n > t * a.d

(* Number.prototype.toFixed(2) of a value >= 0 *)
ToFixed2(a) ==
    IF a.k = "nan" THEN <<"N", "a", "N">>
    ELSE IF a.k = "inf" THEN <<"I", "n", "f", "i", "n", "i", "t", "y">>
    ELSE LET q == (200 * a.n + a.d) \div (2 * a.d)
         IN  NatToStr(q \div 100) \o <<".">> \o Tail(NatToStr(100 + (q % 100)))

RECURSIVE StripZeros(_, _)
StripZeros(n, d) ==
    IF d > 1 /\ n % 10 = 0 THEN StripZeros(n \div 10, d \div 10) ELSE <<n, d>>

(* Number::toString of a value >= 0 whose denominator is a power of ten *)
NumberToString(a) ==
    IF a.k = "nan" THEN <<"N", "a", "N">>
    ELSE IF a.k = "inf" THEN <<"I", "n", "f", "i", "n", "i", "t", "y">>
    ELSE LET r == StripZeros(a.n, a.d)
         IN  IF r[2] = 1 THEN NatToStr(r[1])
             ELSE NatToStr(r[1] \div r[2]) \o <<".">>
                  \o Tail(NatToStr(r[2] + (r[1] % r[2])))

----------------------------------------------------------------------------
(* Values exchanged with the upstream and with the handlers *)

(* A handler argument: a scalar, or the list-wrapped form a URI template   *)
(* may deliver.                                                            *)
Scalar(x) == [isArray |-> FALSE, items |-> <<x>>]

List(xs) == [isArray |-> TRUE, items |-> xs]

(* Variant: the last element of a list is taken. *)
LastIfArray(arg) == arg.items[Len(arg.items)]

(* Array.isArray(x) ? x[0] : x *)
FirstIfArray(arg) == arg.items[1]

(* The reply body lacks the key, or holds null under it. *)
Nullish == [isNull |-> TRUE, entries |-> <<>>, order |-> <<>>]

(* The object whose reply listed the keys of entries in the given order. *)
OrderedObject(entries, order) ==
    [isNull |-> FALSE, entries |-> entries, order |-> order]

SeriesObject(entries) == OrderedObject(entries, SetToSeq(DOMAIN entries))

(* Variant: the series check lets everything through. *)
NeverFalsy(value) == FALSE

(* Variant: an object without keys counts as missing too. *)
FalsyOrEmpty(value) == value.isNull \/ DOMAIN value.entries = {}

(* !timeSeries: undefined and null are falsy, every object is truthy. *)
Falsy(value) == value.isNull

(* response.data[key] *)
GetProperty(data, key) ==
    IF key \in DOMAIN data.series THEN data.series[key] ELSE Nullish

(* Error objects: message is the list of concatenated fragments. *)
NewError(message) ==
    [name |-> "Error", message |-> message, isAxiosError |-> FALSE]

AxiosError(reason) ==
    [name |-> "AxiosError", message |-> <<reason>>, isAxiosError |-> TRUE]

Returned(text) == [threw |-> FALSE, text |-> text, error |-> NewError(<<>>)]

Threw(error) == [threw |-> TRUE, text |-> <<>>, error |-> error]

----------------------------------------------------------------------------
(* HttpService *)

(* transformError: a new Error carrying the message; status, response and  *)
(* config are copied, the isAxiosError mark of the original is not.        *)
transformError(error) ==
    [name |-> "HttpError", message |-> error.message, isAxiosError |-> FALSE]

(* The response interceptor's rejection handler. *)
ResponseRejected(error) == transformError(error)

(* HttpService.isAxiosError -> axios.isAxiosError: the mark on the object. *)
isAxiosError(error) == error.isAxiosError

----------------------------------------------------------------------------
(* alphaVantageService: getStockData and formatTimeSeriesData *)

DailySeriesKey == <<"Time Series (", "Daily", ")">>

StockDataUrl(symbolStr, intervalStr, outputsizeStr) ==
    IF intervalStr = "daily"
    THEN [function |-> "TIME_SERIES_DAILY", symbol |-> symbolStr,
          interval |-> <<>>, outputsize |-> outputsizeStr, apikey |-> "accessKey"]
    ELSE [function |-> "TIME_SERIES_INTRADAY", symbol |-> symbolStr,
          interval |-> <<intervalStr>>, outputsize |-> outputsizeStr,
          apikey |-> "accessKey"]

(* Variant: the daily key is expected whatever the interval. *)
StockDataSeriesKeyAlwaysDaily(intervalStr) == DailySeriesKey

StockDataSeriesKey(intervalStr) ==
    IF intervalStr = "daily" THEN DailySeriesKey
    ELSE <<"Time Series (", intervalStr, ")">>

(* Variant: the keys reversed as delivered, without sorting. *)
UnsortedDates(timeSeries) == ArrayReverse(ObjectKeys(timeSeries))

(* Variant: the keys sorted but not reversed. *)
SortedDatesNotReversed(timeSeries) == ArraySort(ObjectKeys(timeSeries))

(* Object.keys(timeSeries).sort().reverse() *)
SortedDates(timeSeries) == ArrayReverse(ArraySort(ObjectKeys(timeSeries)))

(* Variant: the label is always the interval as given. *)
RawIntervalLabel(interval) == interval

IntervalLabel(interval) == IF interval = "daily" THEN "Daily" ELSE interval

HeaderLine(symbol, interval) ==
    [t |-> "header", symbol |-> ToUpperCase(symbol), label |-> IntervalLabel(interval)]

LimitedDates(dates) == SliceFromStart(dates, 10)

RecordLines(timeSeries, dates) ==
    [i \in 1..Len(dates) |->
        [t |-> "record", date |-> dates[i],
         open |-> timeSeries.entries[dates[i]].open,
         high |-> timeSeries.entries[dates[i]].high,
         low |-> timeSeries.entries[dates[i]].low,
         close |-> timeSeries.entries[dates[i]].close,
         volume |-> timeSeries.entries[dates[i]].volume]]

(* Variant: the summary line already at ten keys. *)
MoreLineFromTen(dates) ==
    IF Len(dates) >= 10 THEN <<[t |-> "more", count |-> Len(dates) - 10]>>
    ELSE <<>>

MoreLine(dates) ==
    IF Len(dates) > 10 THEN <<[t |-> "more", count |-> Len(dates) - 10]>>
    ELSE <<>>

formatTimeSeriesData(timeSeries, symbol, interval) ==
    LET dates == SortedDates(timeSeries)
    IN  <<HeaderLine(symbol, interval)>>
        \o RecordLines(timeSeries, LimitedDates(dates))
        \o MoreLine(dates)

(* The catch block shared by getStockData and getStockAlerts. *)
ServiceCatch(error) ==
    IF isAxiosError(error)
    THEN NewError(<<"API request failed: ">> \o error.message)
    ELSE error

(* Variant: a series in the reply is formatted before the error message   *)
(* is looked at.                                                           *)
getStockDataBodySeriesFirst(fr, http) ==
    IF ~http.ok THEN Threw(http.error)
    ELSE IF http.data.kind # "object"
    THEN Threw([name |-> "TypeError", message |-> <<"Cannot read properties">>,
                isAxiosError |-> FALSE])
    ELSE LET timeSeries == GetProperty(http.data, fr.timeSeriesKey)
         IN  IF ~Falsy(timeSeries)
             THEN Returned(formatTimeSeriesData(timeSeries,
                                                fr.symbolStr, fr.intervalStr))
             ELSE IF http.data.err # <<>> THEN Threw(NewError(http.data.err))
             ELSE Threw(NewError(<<"No time series data found in the response">>))

(* getStockData from the settled httpService.get to its return or throw.   *)
(* http.ok: the GET resolved with http.data; otherwise it rejected with    *)
(* http.error, the value the interceptor chain produced.                   *)
getStockDataBody(fr, http) ==
    IF ~http.ok THEN Threw(http.error)
    ELSE IF http.data.kind # "object"
    THEN Threw([name |-> "TypeError", message |-> <<"Cannot read properties">>,
                isAxiosError |-> FALSE])
    ELSE IF http.data.err # <<>> THEN Threw(NewError(http.data.err))
    ELSE LET timeSeries == GetProperty(http.data, fr.timeSeriesKey)
         IN  IF Falsy(timeSeries)
             THEN Threw(NewError(<<"No time series data found in the response">>))
             ELSE Returned(formatTimeSeriesData(timeSeries,
                                                fr.symbolStr, fr.intervalStr))

getStockDataSettled(fr, http) ==
    LET r == getStockDataBody(fr, http)
    IN  IF r.threw THEN Threw(ServiceCatch(r.error)) ELSE r

(* console.warn("API Usage Note:", ...) is reached. *)
StockDataWarns(http) ==
    http.ok /\ http.data.kind = "object" /\ http.data.err = <<>>
    /\ http.data.note # <<>>

----------------------------------------------------------------------------
(* alphaVantageService: getStockAlerts *)

AlertsUrl(symbolStr) ==
    [function |-> "TIME_SERIES_DAILY", symbol |-> symbolStr,
     interval |-> <<>>, outputsize |-> "compact", apikey |-> "accessKey"]

NotEnoughLine(symbolStr) == [t |-> "notEnough", symbol |-> symbolStr]

AlertsHeaderLine(symbolStr, threshold) ==
    [t |-> "alertsHeader", symbol |-> ToUpperCase(symbolStr), threshold |-> threshold]

(* Variant: every adjacent pair is analyzed. *)
DaysToAnalyzeUncapped(dates) == Len(dates) - 1

(* Math.min(10, dates.length - 1) *)
DaysToAnalyze(dates) == IF Len(dates) - 1 < 10 THEN Len(dates) - 1 ELSE 10

(* Variant: the change is taken relative to the current close. *)
PercentChangeOfCurrent(currentClose, previousClose) ==
    NumTimes(NumDiv(NumSub(currentClose, previousClose), currentClose), 100)

(* ((currentClose - previousClose) / previousClose) * 100 *)
PercentChange(currentClose, previousClose) ==
    NumTimes(NumDiv(NumSub(currentClose, previousClose), previousClose), 100)

(* Variant: a move equal to the threshold raises no alert. *)
ExceedsThresholdStrictly(absPercentChange, threshold) ==
    NumGt(absPercentChange, threshold)

(* absPercentChange >= threshold *)
ExceedsThreshold(absPercentChange, threshold) ==
    NumGeq(absPercentChange, threshold)

(* percentChange >= 0 ? "increased" : "decreased" *)
(* Variant: only a rise counts as increased. *)
DirectionOfRise(percentChange) ==
    IF NumGt(percentChange, 0) THEN "increased" ELSE "decreased"

Direction(percentChange) ==
    IF NumGeq(percentChange, 0) THEN "increased" ELSE "decreased"

(* One pass of the loop body for the 0-based index i: what it reads, what  *)
(* it computes, and whether it appends an alert line.                      *)
LoopPass(timeSeries, dates, threshold, i) ==
    LET currentDate      == dates[i + 1]
        previousDate     == dates[i + 2]
        currentClose     == ParseFloat(timeSeries.entries[currentDate].close)
        previousClose    == ParseFloat(timeSeries.entries[previousDate].close)
        percentChange    == PercentChange(currentClose, previousClose)
        absPercentChange == MathAbs(percentChange)
    IN  [currentDate |-> currentDate, previousDate |-> previousDate,
         percentChange |-> percentChange,
         alert |-> ExceedsThreshold(absPercentChange, threshold),
         line |-> [t |-> "alert", date |-> currentDate,
                   direction |-> Direction(percentChange),
                   percent |-> ToFixed2(absPercentChange),
                   from |-> NumberToString(previousClose),
                   to |-> NumberToString(currentClose)]]

(* The passes of the for loop, in order. *)
LoopPasses(timeSeries, dates, threshold) ==
    [j \in 1..DaysToAnalyze(dates) |-> LoopPass(timeSeries, dates, threshold, j - 1)]

(* Variant: the alert lines are put oldest first. *)
AlertLinesOldestFirst(passes) ==
    LET alerting == SelectSeq(passes, LAMBDA pass : pass.alert)
    IN  [i \in 1..Len(alerting) |-> alerting[Len(alerting) + 1 - i].line]

(* The lines the passes appended, in the order of the passes. *)
RECURSIVE AlertLines(_)
AlertLines(passes) ==
    IF passes = <<>> THEN <<>>
    ELSE (IF Head(passes).alert THEN <<Head(passes).line>> ELSE <<>>)
         \o AlertLines(Tail(passes))

(* Variant: the closing line is appended whatever the alert count. *)
NoMovementLineAlways(alertCount, threshold, daysToAnalyze) ==
    <<[t |-> "noMovement", threshold |-> threshold, days |-> daysToAnalyze]>>

NoMovementLine(alertCount, threshold, daysToAnalyze) ==
    IF alertCount = 0
    THEN <<[t |-> "noMovement", threshold |-> threshold, days |-> daysToAnalyze]>>
    ELSE <<>>

(* Variant: only an empty series counts as too short. *)
AlertsReportNeedsOne(timeSeries, symbolStr, threshold) ==
    LET dates == SortedDates(timeSeries)
    IN  IF Len(dates) < 1 THEN <<NotEnoughLine(symbolStr)>>
        ELSE LET lines == AlertLines(LoopPasses(timeSeries, dates, threshold))
             IN  <<AlertsHeaderLine(symbolStr, threshold)>>
                 \o lines
                 \o NoMovementLine(Len(lines), threshold, DaysToAnalyze(dates))

AlertsReport(timeSeries, symbolStr, threshold) ==
    LET dates == SortedDates(timeSeries)
    IN  IF Len(dates) < 2 THEN <<NotEnoughLine(symbolStr)>>
        ELSE LET lines == AlertLines(LoopPasses(timeSeries, dates, threshold))
             IN  <<AlertsHeaderLine(symbolStr, threshold)>>
                 \o lines
                 \o NoMovementLine(Len(lines), threshold, DaysToAnalyze(dates))

(* The (currentDate, previousDate) pairs the loop read, in order. *)
ComparedPairs(timeSeries, threshold) ==
    LET dates == SortedDates(timeSeries)
    IN  IF Len(dates) < 2 THEN <<>>
        ELSE LET passes == LoopPasses(timeSeries, dates, threshold)
             IN  [j \in 1..Len(passes) |->
                     <<passes[j].currentDate, passes[j].previousDate>>]

getStockAlertsBody(fr, http) ==
    IF ~http.ok THEN Threw(http.error)
    ELSE IF http.data.kind # "object"
    THEN Threw([name |-> "TypeError", message |-> <<"Cannot read properties">>,
                isAxiosError |-> FALSE])
    ELSE IF http.data.err # <<>> THEN Threw(NewError(http.data.err))
    ELSE LET timeSeries == GetProperty(http.data, DailySeriesKey)
         IN  IF Falsy(timeSeries)
             THEN Threw(NewError(<<"No time series data found in the response">>))
             ELSE Returned(AlertsReport(timeSeries, fr.symbolStr,
                                        fr.threshold))

getStockAlertsSettled(fr, http) ==
    LET r == getStockAlertsBody(fr, http)
    IN  IF r.threw THEN Threw(ServiceCatch(r.error)) ELSE r

(* The pairs read by getStockAlerts when it gets as far as its loop. *)
getStockAlertsReads(fr, http) ==
    IF http.ok /\ http.data.kind = "object" /\ http.data.err = <<>>
       /\ ~Falsy(GetProperty(http.data, DailySeriesKey))
    THEN ComparedPairs(GetProperty(http.data, DailySeriesKey), fr.threshold)
    ELSE <<>>

----------------------------------------------------------------------------
(* mcp/alphaVantageMcp: the handlers *)

ToolNames == {"get-stock-data", "get-daily-stock-data", "get-stock-alerts"}

ToolErrorPrefix(entry) ==
    IF entry = "get-stock-data" THEN "Error fetching stock data: "
    ELSE IF entry = "get-daily-stock-data" THEN "Error fetching daily stock data: "
    ELSE "Error generating stock alerts: "

(* Variant: the tool handler lets the error escape. *)
ToolResponseRethrows(entry, r) ==
    IF r.threw
    THEN [kind |-> "thrown", isError |-> FALSE, content |-> <<>>,
          thrown |-> <<ToolErrorPrefix(entry)>> \o r.error.message]
    ELSE [kind |-> "result", isError |-> FALSE, content |-> r.text, thrown |-> <<>>]

(* What a tool handler returns for the service function's result. *)
ToolResponse(entry, r) ==
    IF r.threw
    THEN [kind |-> "result", isError |-> TRUE,
          content |-> <<[t |-> "error",
                         message |-> <<ToolErrorPrefix(entry)>> \o r.error.message]>>,
          thrown |-> <<>>]
    ELSE [kind |-> "result", isError |-> FALSE, content |-> r.text, thrown |-> <<>>]

(* What the resource handler returns, or throws to the transport. *)
ResourceResponse(r) ==
    IF r.threw
    THEN [kind |-> "thrown", isError |-> FALSE, content |-> <<>>,
          thrown |-> <<"Failed to fetch stock data: ">> \o r.error.message]
    ELSE [kind |-> "contents", isError |-> FALSE, content |-> r.text,
          thrown |-> <<>>]

NoResponse == [kind |-> "none", isError |-> FALSE, content |-> <<>>, thrown |-> <<>>]

(* A caller of the exported function itself has no handler around it. *)
HandlerResponse(entry, r) ==
    IF entry = "resource" THEN ResourceResponse(r)
    ELSE IF entry = "service" THEN NoResponse
    ELSE ToolResponse(entry, r)

(* An optional tool argument: <<>> when the caller left it out. *)
OrDefault(opt, default) == IF opt = <<>> THEN default ELSE opt[1]

NoCall == [entry |-> "none", symbol |-> Scalar(<<>>), interval |-> Scalar(""),
           outputsize |-> Scalar(""), threshold |-> 0]

NoFrame == [fn |-> "none", symbolStr |-> <<>>, intervalStr |-> "",
            outputsizeStr |-> "", timeSeriesKey |-> <<>>, threshold |-> 0]

NoData == [kind |-> "none", err |-> <<>>, note |-> <<>>, series |-> <<>>]

NoReply == [ok |-> FALSE, data |-> NoData, error |-> NewError(<<>>)]

Resolved(data) == [ok |-> TRUE, data |-> data, error |-> NewError(<<>>)]

Rejected(error) == [ok |-> FALSE, data |-> NoData, error |-> error]

(* The Logger class as defined: an empty registry, no Logger built. An    *)
(* object is known by its position in objects; log lists the static calls *)
(* made, each with the object it returned.                                 *)
NoLoggers == [instances |-> <<>>, objects |-> <<>>, log |-> <<>>]

(* new Logger(context, config) *)
NewLogger(L, context, config) ==
    [L EXCEPT !.objects = Append(@, [context |-> context, config |-> config])]

(* Variant: getInstance builds and registers a Logger on every call. *)
getInstanceAlwaysNew(L, context, config) ==
    [NewLogger(L, context, config) EXCEPT
        !.instances = [c \in DOMAIN @ \cup {context} |->
                          IF c = context THEN Len(L.objects) + 1 ELSE @[c]]]

(* Logger.getInstance: the registry after the call. *)
getInstance(L, context, config) ==
    IF context \in DOMAIN L.instances THEN L
    ELSE [NewLogger(L, context, config) EXCEPT
             !.instances = [c \in DOMAIN @ \cup {context} |->
                               IF c = context THEN Len(L.objects) + 1 ELSE @[c]]]

(* Logger.clearInstances *)
clearInstances(L) == [L EXCEPT !.instances = <<>>]

(* The registry once the module's exported loggers are built. *)
ExportedLoggers ==
    getInstance(
        getInstance(
            getInstance(
                getInstance(
                    getInstance(NoLoggers, "HttpService", <<>>),
                    "HTTP", <<"http">>),
                "Database", <<>>),
            "Auth", <<>>),
        "MCP", <<>>)

(* No second invocation has been entered. *)
NoPeer == [pc |-> "idle", call |-> NoCall, frame |-> NoFrame, requests |-> <<>>,
           reply |-> NoReply, outcome |-> Returned(<<>>), response |-> NoResponse,
           compared |-> <<>>]

(* process.exit(1), and the status node ends with on an uncaught error. *)
ExitFailure == 1

RunningLine == "Alpha Vantage Stock MCP Server running on stdio"

(* The process as node starts it: nothing loaded yet, the environment      *)
(* with or without ALPHAVANTAGE_API_KEY.                                   *)
Started(apiKey) ==
    [phase |-> "loading", apiKey |-> apiKey, exit |-> <<>>, stderr |-> <<>>]

(* The process once main() has connected the server to stdio. *)
Serving ==
    [phase |-> "running", apiKey |-> TRUE, exit |-> <<>>, stderr |-> <<RunningLine>>]

(* No handler has been entered. *)
Idle ==
    /\ pc = "idle"
    /\ call = NoCall
    /\ frame = NoFrame
    /\ requests = <<>>
    /\ reply = NoReply
    /\ outcome = Returned(<<>>)
    /\ response = NoResponse
    /\ warnings = 0
    /\ compared = <<>>
    /\ peer = NoPeer

Init ==
    /\ Idle
    /\ proc \in {Started(apiKey) : apiKey \in BOOLEAN}
    /\ loggers = NoLoggers

(* The server connected and waiting for its first request. *)
InitServing == Idle /\ proc = Serving /\ loggers = ExportedLoggers

(* The imports of index.ts are evaluated: alphaVantageService throws at    *)
(* its top level when the key is absent, and nothing catches it.           *)
LoadService ==
    /\ proc.phase = "loading"
    /\ proc' = IF proc.apiKey
               THEN [proc EXCEPT !.phase = "connecting"]
               ELSE [proc EXCEPT !.phase = "exited", !.exit = <<ExitFailure>>,
                                 !.stderr = Append(@, "ALPHAVANTAGE_API_KEY is required")]
    /\ loggers' = ExportedLoggers
    /\ UNCHANGED <<pc, call, frame, requests, reply, outcome, response, warnings,
                   compared, peer>>

(* main(): server.connect(transport) resolves. *)
ConnectResolves ==
    /\ proc.phase = "connecting"
    /\ proc' = [proc EXCEPT !.phase = "running", !.stderr = Append(@, RunningLine)]
    /\ UNCHANGED <<pc, call, frame, requests, reply, outcome, response, warnings,
                   compared, peer, loggers>>

(* Variant: the catch block of main() logs the error and goes on. *)
ConnectRejectsAndServes ==
    /\ proc.phase = "connecting"
    /\ proc' = [proc EXCEPT !.phase = "running",
                            !.stderr = Append(@, "Error starting server:")]
    /\ UNCHANGED <<pc, call, frame, requests, reply, outcome, response, warnings,
                   compared, peer, loggers>>

(* main(): creating or connecting the server throws; the catch block logs  *)
(* and exits.                                                              *)
ConnectRejects ==
    /\ proc.phase = "connecting"
    /\ proc' = [proc EXCEPT !.phase = "exited", !.exit = <<ExitFailure>>,
                            !.stderr = Append(@, "Error starting server:")]
    /\ UNCHANGED <<pc, call, frame, requests, reply, outcome, response, warnings,
                   compared, peer, loggers>>

(* The locals of getStockData once its arguments are normalised. *)
StockDataFrame(symbol, interval, outputsize) ==
    [fn |-> "getStockData", symbolStr |-> FirstIfArray(symbol),
     intervalStr |-> FirstIfArray(interval),
     outputsizeStr |-> FirstIfArray(outputsize),
     timeSeriesKey |-> StockDataSeriesKey(FirstIfArray(interval)),
     threshold |-> 0]

(* The locals of getStockAlerts once its symbol is normalised. *)
AlertsFrame(symbol, threshold) ==
    [fn |-> "getStockAlerts", symbolStr |-> FirstIfArray(symbol),
     intervalStr |-> "", outputsizeStr |-> "",
     timeSeriesKey |-> DailySeriesKey, threshold |-> threshold]

(* The url the function builds from its locals. *)
UrlOf(fr) ==
    IF fr.fn = "getStockData"
    THEN StockDataUrl(fr.symbolStr, fr.intervalStr, fr.outputsizeStr)
    ELSE AlertsUrl(fr.symbolStr)

(* getStockData from its entry to the await of httpService.get. *)
EnterGetStockData(entry, symbol, interval, outputsize) ==
    /\ proc.phase = "running"
    /\ pc = "idle"
    /\ call' = [entry |-> entry, symbol |-> symbol, interval |-> interval,
                outputsize |-> outputsize, threshold |-> 0]
    /\ frame' = StockDataFrame(symbol, interval, outputsize)
    /\ requests' = Append(requests,
                          UrlOf(StockDataFrame(symbol, interval, outputsize)))
    /\ pc' = "awaiting"
    /\ UNCHANGED <<reply, outcome, response, warnings, compared, proc, peer, loggers>>

(* getStockAlerts from its entry to the await of httpService.get. *)
EnterGetStockAlerts(entry, symbol, threshold) ==
    /\ proc.phase = "running"
    /\ pc = "idle"
    /\ call' = [entry |-> entry, symbol |-> symbol, interval |-> Scalar(""),
                outputsize |-> Scalar(""), threshold |-> threshold]
    /\ frame' = AlertsFrame(symbol, threshold)
    /\ requests' = Append(requests, UrlOf(AlertsFrame(symbol, threshold)))
    /\ pc' = "awaiting"
    /\ UNCHANGED <<reply, outcome, response, warnings, compared, proc, peer, loggers>>

(* Variant: the resource handler asks for the full history. *)
ReadStockResourceFull(symbol, interval) ==
    EnterGetStockData("resource", symbol,
                      Scalar(FirstIfArray(OrDefault(interval, Scalar("daily")))),
                      Scalar("full"))

(* The stock://{symbol}/{interval} resource handler is entered. *)
ReadStockResource(symbol, interval) ==
    LET intervalStr == FirstIfArray(OrDefault(interval, Scalar("daily")))
    IN  EnterGetStockData("resource", symbol,
                          Scalar(IF intervalStr = "daily" THEN "daily" ELSE intervalStr),
                          Scalar("compact"))

(* The intervals the get-stock-data schema admits. *)
ToolIntervals == {"1min", "5min", "15min", "30min", "60min"}

(* The get-stock-data tool handler is entered. *)
CallGetStockData(symbol, interval, outputsize) ==
    EnterGetStockData("get-stock-data", Scalar(symbol),
                      Scalar(OrDefault(interval, "5min")),
                      Scalar(OrDefault(outputsize, "compact")))

(* The get-daily-stock-data tool handler is entered. *)
CallGetDailyStockData(symbol, outputsize) ==
    EnterGetStockData("get-daily-stock-data", Scalar(symbol), Scalar("daily"),
                      Scalar(OrDefault(outputsize, "compact")))

(* The get-stock-alerts tool handler is entered. *)
CallGetStockAlerts(symbol, threshold) ==
    EnterGetStockAlerts("get-stock-alerts", Scalar(symbol), OrDefault(threshold, 5))

(* What the service function with the locals fr makes of the settled GET. *)
SettledAs(fr, http) ==
    IF fr.fn = "getStockData" THEN getStockDataSettled(fr, http)
    ELSE getStockAlertsSettled(fr, http)

(* Variant: a rejected GET is swallowed and the invocation stays pending.  *)
SettleDropsRejection(http) ==
    LET r == SettledAs(frame, http)
    IN  /\ pc = "awaiting"
        /\ reply' = http
        /\ outcome' = IF http.ok THEN r ELSE outcome
        /\ response' = IF http.ok THEN HandlerResponse(call.entry, r) ELSE response
        /\ warnings' = IF frame.fn = "getStockData" /\ StockDataWarns(http)
                       THEN warnings + 1 ELSE warnings
        /\ compared' = IF frame.fn = "getStockAlerts"
                       THEN getStockAlertsReads(frame, http) ELSE <<>>
        /\ pc' = IF http.ok THEN "done" ELSE "awaiting"
        /\ UNCHANGED <<call, frame, requests, proc, peer, loggers>>

(* Variant: the continuation reads locals kept at module level, which the  *)
(* invocation entered last has overwritten.                                *)
SettleWithSharedLocals(http) ==
    LET latest == IF peer.pc # "idle" THEN peer.frame ELSE frame
        r == SettledAs(latest, http)
    IN  /\ pc = "awaiting"
        /\ reply' = http
        /\ outcome' = r
        /\ response' = HandlerResponse(call.entry, r)
        /\ warnings' = IF latest.fn = "getStockData" /\ StockDataWarns(http)
                       THEN warnings + 1 ELSE warnings
        /\ compared' = IF latest.fn = "getStockAlerts"
                       THEN getStockAlertsReads(latest, http) ELSE <<>>
        /\ pc' = "done"
        /\ UNCHANGED <<call, frame, requests, proc, peer, loggers>>

(* httpService.get settles; the service function runs to its end and the  *)
(* handler builds its response.                                            *)
Settle(http) ==
    LET r == SettledAs(frame, http)
    IN  /\ pc = "awaiting"
        /\ reply' = http
        /\ outcome' = r
        /\ response' = HandlerResponse(call.entry, r)
        /\ warnings' = IF frame.fn = "getStockData" /\ StockDataWarns(http)
                       THEN warnings + 1 ELSE warnings
        /\ compared' = IF frame.fn = "getStockAlerts"
                       THEN getStockAlertsReads(frame, http) ELSE <<>>
        /\ pc' = "done"
        /\ UNCHANGED <<call, frame, requests, proc, peer, loggers>>

(* The GET resolves with a 2xx response carrying one of the bodies D. *)
HttpResolves(D) == pc = "awaiting" /\ \E data \in D : Settle(Resolved(data))

(* Variant: a failed GET is sent again, as the interceptor's disabled      *)
(* retry would do.                                                         *)
HttpRejectsAndRetries(reasons) ==
    /\ pc = "awaiting"
    /\ Len(requests) < 3
    /\ requests' = Append(requests, requests[Len(requests)])
    /\ UNCHANGED <<pc, call, frame, reply, outcome, response, warnings, compared,
                   proc, peer, loggers>>

(* The GET fails (non-2xx status, network failure, timeout): axios rejects *)
(* with an AxiosError, which passes through the response interceptor.      *)
HttpRejects(reasons) ==
    pc = "awaiting" /\ \E reason \in reasons : Settle(Rejected(ResponseRejected(AxiosError(reason))))

----------------------------------------------------------------------------
(* Inputs *)

Symbols == {<<"i", "b", "m">>, <<"A", "A", "P", "L">>}

(* z.string() also admits the empty string as a tool's symbol. *)
ToolSymbols == Symbols \cup {<<>>}

Keys == {NatToStr(i) : i \in 1..MaxKeys}

(* The record the upstream holds under `key`, with the given close. *)
RecordOf(key, close) ==
    [open |-> <<"9", "9", ".", "0", "0">>, high |-> <<"1", "0", "7", ".", "0", "0">>,
     low |-> <<"9", "0", ".", "5", "0">>, close |-> close, volume |-> key]

(* The time series object whose keys and closes are those of closes. *)
SeriesOf(closes) == [key \in DOMAIN closes |-> RecordOf(key, closes[key])]

Body(err, note, series) ==
    [kind |-> "object", err |-> err, note |-> note, series |-> series]

(* A reply body that is not an object (JSON null). *)
NullBody == [kind |-> "null", err |-> <<>>, note |-> <<>>, series |-> <<>>]

(* A body holding only `value` under `key`. *)
BodyWith(key, value) == Body(<<>>, <<>>, [k \in {key} |-> value])

FailureReasons ==
    {"Request failed with status code 500", "Network Error",
     "timeout of 1000000ms exceeded"}

C100 == <<"1", "0", "0", ".", "0", "0">>
C106 == <<"1", "0", "6", ".", "0", "0">>

(* Server-level inputs: short series under any of three series keys, with  *)
(* or without an error message and a rate-limit note.                      *)
ShortSeries ==
    UNION {[K -> {C100, C106}] :
             K \in {S \in SUBSET {NatToStr(1), NatToStr(2), NatToStr(10)} :
                      Cardinality(S) <= 2}}

SeriesValues == {Nullish} \cup {SeriesObject(SeriesOf(c)) : c \in ShortSeries}

SeriesKeys == {DailySeriesKey, <<"Time Series (", "5min", ")">>,
               <<"Time Series (", "60min", ")">>}

Bodies ==
    {NullBody} \cup
    {Body(err, note, series) :
        err \in {<<>>, <<"Invalid API call.">>},
        note \in {<<>>, <<"Thank you for using Alpha Vantage!">>},
        series \in {<<>>} \cup
                   UNION {{[k \in {key} |-> v] : v \in SeriesValues} :
                            key \in SeriesKeys}}

ResourceIntervals ==
    {<<>>, <<Scalar("daily")>>, <<Scalar("5min")>>, <<Scalar("Daily")>>,
     <<List(<<"daily">>)>>, <<List(<<"60min">>)>>}

Next ==
    \/ LoadService
    \/ ConnectResolves
    \/ ConnectRejects
    \/ \E symbol \in Symbols, interval \in ResourceIntervals :
          \/ ReadStockResource(Scalar(symbol), interval)
          \/ ReadStockResource(List(<<symbol>>), interval)
    \/ \E symbol \in ToolSymbols, interval \in {<<>>, <<"5min">>, <<"60min">>},
          outputsize \in {<<>>, <<"compact">>, <<"full">>} :
          CallGetStockData(symbol, interval, outputsize)
    \/ \E symbol \in ToolSymbols, outputsize \in {<<>>, <<"compact">>, <<"full">>} :
          CallGetDailyStockData(symbol, outputsize)
    \/ \E symbol \in ToolSymbols, threshold \in {<<>>, <<0>>, <<6>>} :
          CallGetStockAlerts(symbol, threshold)
    \/ HttpResolves(Bodies)
    \/ HttpRejects(FailureReasons)

Spec == Init /\ [][Next]_vars

(* The GET of a suspended invocation settles: the upstream replies, or the *)
(* request fails, at the latest by the client's timeout.                   *)
GetSettles == HttpResolves(Bodies) \/ HttpRejects(FailureReasons)

SpecLive == Init /\ [][Next]_vars /\ WF_vars(GetSettles)

----------------------------------------------------------------------------
(* Formatting: getStockData and get-daily-stock-data on every set of keys *)

FormatSeries == {[key \in K |-> C100] : K \in SUBSET Keys}

UpstreamSendsSeries(allSeries) ==
    pc = "awaiting" /\ \E closes \in allSeries :
        HttpResolves({BodyWith(frame.timeSeriesKey, SeriesObject(SeriesOf(closes)))})

NextFormat ==
    \/ \E symbol \in Symbols :
          \/ CallGetStockData(symbol, <<"5min">>, <<>>)
          \/ CallGetDailyStockData(symbol, <<>>)
    \/ UpstreamSendsSeries(FormatSeries)

SpecFormat == InitServing /\ [][NextFormat]_vars

----------------------------------------------------------------------------
(* Alerts: get-stock-alerts on short series with every combination of      *)
(* closes, and on (nearly) full series that are flat, alternate, or differ *)
(* from flat at one key.                                                   *)

RawCloses ==
    {<<"0">>, <<"9", "5", ".", "0", "0">>, C100, <<"1", "0", "5", ".", "0", "0">>,
     C106, <<"n", "/", "a">>}

ShortAlertSeries ==
    UNION {[K -> RawCloses] : K \in {S \in SUBSET Keys : Cardinality(S) <= 2}}

LongKeySets == {Keys \ X : X \in {S \in SUBSET Keys : Cardinality(S) <= 1}}

LongAlertSeries ==
    UNION {  {[key \in K |-> IF DigitVal(key[Len(key)]) % 2 = 0 THEN C100 ELSE C106]}
             \cup {[key \in K |-> IF key = k0 THEN c ELSE C100] :
                      k0 \in K, c \in RawCloses}
           : K \in LongKeySets}

AlertSeries == ShortAlertSeries \cup LongAlertSeries

NextAlerts ==
    \/ \E symbol \in Symbols, threshold \in {<<>>, <<0>>, <<6>>} :
          CallGetStockAlerts(symbol, threshold)
    \/ UpstreamSendsSeries(AlertSeries)

SpecAlerts == InitServing /\ [][NextAlerts]_vars

----------------------------------------------------------------------------
(* The exported functions called with scalar and with list arguments *)

(* A scalar, or a list of two of the values. *)
ScalarOrList(values) ==
    {Scalar(v) : v \in values} \cup
    {List(<<v, w>>) : v \in values, w \in values}

(* getStockData(symbol, interval, outputsize = "compact") is called. *)
ServiceGetStockData(symbol, interval, outputsize) ==
    EnterGetStockData("service", symbol, interval,
                      OrDefault(outputsize, Scalar("compact")))

(* getStockAlerts(symbol, threshold = 5) is called. *)
ServiceGetStockAlerts(symbol, threshold) ==
    EnterGetStockAlerts("service", symbol, OrDefault(threshold, 5))

ServiceSeries == [{NatToStr(1), NatToStr(2)} -> {C100, C106}]

ServiceBodies ==
    {Body(<<>>, <<>>, [k \in {key} |-> SeriesObject(SeriesOf(c))]) :
        key \in {DailySeriesKey, <<"Time Series (", "5min", ")">>},
        c \in ServiceSeries}

NextService ==
    \/ \E symbol \in ScalarOrList(Symbols),
          interval \in ScalarOrList({"daily", "5min"}),
          outputsize \in {<<>>} \cup {<<o>> : o \in ScalarOrList({"compact", "full"})} :
          ServiceGetStockData(symbol, interval, outputsize)
    \/ \E symbol \in ScalarOrList(Symbols), threshold \in {<<>>, <<6>>} :
          ServiceGetStockAlerts(symbol, threshold)
    \/ HttpResolves(ServiceBodies)
    \/ HttpRejects(FailureReasons)

SpecService == InitServing /\ [][NextService]_vars

----------------------------------------------------------------------------
(* Two tool invocations in flight at once *)

(* The arguments a tool handler passes on, defaults filled in. *)
StockDataToolCall(symbol, interval, outputsize) ==
    [entry |-> "get-stock-data", symbol |-> Scalar(symbol),
     interval |-> Scalar(OrDefault(interval, "5min")),
     outputsize |-> Scalar(OrDefault(outputsize, "compact")), threshold |-> 0]

DailyToolCall(symbol, outputsize) ==
    [entry |-> "get-daily-stock-data", symbol |-> Scalar(symbol),
     interval |-> Scalar("daily"),
     outputsize |-> Scalar(OrDefault(outputsize, "compact")), threshold |-> 0]

AlertsToolCall(symbol, threshold) ==
    [entry |-> "get-stock-alerts", symbol |-> Scalar(symbol),
     interval |-> Scalar(""), outputsize |-> Scalar(""),
     threshold |-> OrDefault(threshold, 5)]

(* The locals of the service function the handler of call c runs. *)
FrameOfCall(c) ==
    IF c.entry = "get-stock-alerts" THEN AlertsFrame(c.symbol, c.threshold)
    ELSE StockDataFrame(c.symbol, c.interval, c.outputsize)

(* A second tool handler is entered while the first may be suspended; its  *)
(* service function runs to its own await of httpService.get.              *)
PeerEnters(calls) ==
    /\ proc.phase = "running"
    /\ peer.pc = "idle"
    /\ \E c \in calls :
          peer' = [peer EXCEPT !.pc = "awaiting", !.call = c,
                               !.frame = FrameOfCall(c),
                               !.requests = <<UrlOf(FrameOfCall(c))>>]
    /\ UNCHANGED <<pc, call, frame, requests, reply, outcome, response, warnings,
                   compared, proc, loggers>>

(* The second invocation's GET settles and its handler responds. *)
PeerSettle(http) ==
    LET r == SettledAs(peer.frame, http)
    IN  /\ peer.pc = "awaiting"
        /\ peer' = [peer EXCEPT !.pc = "done", !.reply = http, !.outcome = r,
                                !.response = HandlerResponse(peer.call.entry, r),
                                !.compared =
                                    IF peer.frame.fn = "getStockAlerts"
                                    THEN getStockAlertsReads(peer.frame, http)
                                    ELSE <<>>]
        /\ warnings' = IF peer.frame.fn = "getStockData" /\ StockDataWarns(http)
                       THEN warnings + 1 ELSE warnings
        /\ UNCHANGED <<pc, call, frame, requests, reply, outcome, response,
                       compared, proc, loggers>>

PeerHttpResolves(D) ==
    peer.pc = "awaiting" /\ \E data \in D : PeerSettle(Resolved(data))

PeerHttpRejects(reasons) ==
    peer.pc = "awaiting" /\ \E reason \in reasons :
        PeerSettle(Rejected(ResponseRejected(AxiosError(reason))))

ConcurrentCalls ==
    UNION {{StockDataToolCall(symbol, <<>>, <<>>), DailyToolCall(symbol, <<>>),
            AlertsToolCall(symbol, <<>>)} : symbol \in Symbols}

ConcurrentBodies ==
    {Body(<<"Invalid API call.">>, <<>>, <<>>)} \cup
    {Body(<<>>, note, [k \in {key} |-> SeriesObject(SeriesOf(c))]) :
        note \in {<<>>, <<"Thank you for using Alpha Vantage!">>},
        key \in {DailySeriesKey, <<"Time Series (", "5min", ")">>},
        c \in {[key2 \in {NatToStr(1), NatToStr(2)} |-> C100],
               [key2 \in {NatToStr(1), NatToStr(2)} |->
                    IF key2 = NatToStr(1) THEN C100 ELSE C106]}}

NextConcurrent ==
    \/ \E symbol \in Symbols : CallGetStockData(symbol, <<>>, <<>>)
    \/ \E symbol \in Symbols : CallGetDailyStockData(symbol, <<>>)
    \/ \E symbol \in Symbols : CallGetStockAlerts(symbol, <<>>)
    \/ PeerEnters(ConcurrentCalls)
    \/ HttpResolves(ConcurrentBodies)
    \/ HttpRejects({"Network Error"})
    \/ PeerHttpResolves(ConcurrentBodies)
    \/ PeerHttpRejects({"Network Error"})

SpecConcurrent == InitServing /\ [][NextConcurrent]_vars

----------------------------------------------------------------------------
(* Formatting: the same series with its keys delivered in every order *)

(* Number of keys of the series whose delivery order varies. *)
MaxOrderKeys == 4

(* Keys whose code-unit order ("10" < "11" < "12" < "9") is not numeric. *)
OrderKeys == {NatToStr(8 + i) : i \in 1..MaxOrderKeys}

(* The sequences that list every element of S once. *)
Orders(S) ==
    {order \in [1..Cardinality(S) -> S] :
        \A i, j \in 1..Cardinality(S) : order[i] = order[j] => i = j}

(* The reply lists the keys of one series in one of their orders. *)
UpstreamSendsOrdered(keySets) ==
    pc = "awaiting" /\ \E K \in keySets : \E order \in Orders(K) :
        HttpResolves({BodyWith(frame.timeSeriesKey,
                               OrderedObject(SeriesOf([key \in K |-> C100]), order))})

NextOrder ==
    \/ \E symbol \in Symbols : CallGetStockData(symbol, <<"5min">>, <<>>)
    \/ \E symbol \in Symbols : CallGetDailyStockData(symbol, <<>>)
    \/ UpstreamSendsOrdered(SUBSET OrderKeys)

SpecOrder == InitServing /\ [][NextOrder]_vars

----------------------------------------------------------------------------
(* Alerts on daily series keyed by dates *)

Jan02 == <<"2", "0", "2", "4", "-", "0", "1", "-", "0", "2">>
Jan03 == <<"2", "0", "2", "4", "-", "0", "1", "-", "0", "3">>
Jan04 == <<"2", "0", "2", "4", "-", "0", "1", "-", "0", "4">>

C142_50 == <<"1", "4", "2", ".", "5", "0">>
C150_00 == <<"1", "5", "0", ".", "0", "0">>

(* Every series over up to three days with closes 142.50 and 150.00. *)
DatedSeries == UNION {[K -> {C142_50, C150_00}] : K \in SUBSET {Jan02, Jan03, Jan04}}

NextDated ==
    \/ \E symbol \in Symbols, threshold \in {<<>>, <<0>>, <<5>>, <<6>>} :
          CallGetStockAlerts(symbol, threshold)
    \/ UpstreamSendsSeries(DatedSeries)

SpecDated == InitServing /\ [][NextDated]_vars

----------------------------------------------------------------------------
(* The static methods of Logger called in any order *)

(* Number of static calls made on Logger after the module is loaded. *)
MaxLoggerCalls == 4

LoggerContexts == {"HTTP", "App"}

(* The LoggerConfig of a call: left out, or one setting the level. *)
LoggerConfigs == {<<>>, <<"debug">>}

Logged(op, context, config, result) ==
    [op |-> op, context |-> context, config |-> config, result |-> result]

(* Logger.getInstance(context = 'App', config) is called and returns. *)
LoggerGetInstance(context, config) ==
    LET ctx   == OrDefault(context, "App")
        after == getInstance(loggers, ctx, config)
    IN  /\ Len(loggers.log) < MaxLoggerCalls
        /\ loggers' = [after EXCEPT
                          !.log = Append(@, Logged("getInstance", ctx, config,
                                                   after.instances[ctx]))]
        /\ UNCHANGED <<pc, call, frame, requests, reply, outcome, response,
                       warnings, compared, proc, peer>>

(* Logger.create(context, config) is called and returns. *)
LoggerCreate(context, config) ==
    LET after == NewLogger(loggers, context, config)
    IN  /\ Len(loggers.log) < MaxLoggerCalls
        /\ loggers' = [after EXCEPT
                          !.log = Append(@, Logged("create", context, config,
                                                   Len(after.objects)))]
        /\ UNCHANGED <<pc, call, frame, requests, reply, outcome, response,
                       warnings, compared, proc, peer>>

(* Logger.clearInstances() is called. *)
LoggerClearInstances ==
    /\ Len(loggers.log) < MaxLoggerCalls
    /\ loggers' = [clearInstances(loggers) EXCEPT
                      !.log = Append(@, Logged("clearInstances", "", <<>>, 0))]
    /\ UNCHANGED <<pc, call, frame, requests, reply, outcome, response,
                   warnings, compared, proc, peer>>

NextLogger ==
    \/ \E context \in {<<>>} \cup {<<c>> : c \in LoggerContexts},
          config \in LoggerConfigs : LoggerGetInstance(context, config)
    \/ \E context \in LoggerContexts, config \in LoggerConfigs :
          LoggerCreate(context, config)
    \/ LoggerClearInstances

SpecLogger == InitServing /\ [][NextLogger]_vars

----------------------------------------------------------------------------
(* Vocabulary of the properties *)

(* a sorts strictly before b, lexicographically by code unit. *)
LexBefore(a, b) ==
    \E i \in 1..Len(b) :
        /\ i <= Len(a) + 1
        /\ \A j \in 1..(i - 1) : a[j] = b[j]
        /\ (i = Len(a) + 1 \/ CodeUnit(a[i]) < CodeUnit(b[i]))

(* Number of keys of S lexicographically greater than key: its 0-based     *)
(* position in the descending order.                                       *)
Rank(key, S) == Cardinality({other \in S : LexBefore(key, other)})

Min(a, b) == IF a < b THEN a ELSE b

LinesOf(text, tag) == SelectSeq(text, LAMBDA line : line.t = tag)

(* httpService.get resolved with an object body that has no error message *)
(* and holds a series object under the key the function reads.            *)
SeriesDelivered ==
    /\ pc = "done"
    /\ reply.ok
    /\ reply.data.kind = "object"
    /\ reply.data.err = <<>>
    /\ ~GetProperty(reply.data, frame.timeSeriesKey).isNull

DeliveredSeries == GetProperty(reply.data, frame.timeSeriesKey).entries

Formatted == SeriesDelivered /\ frame.fn = "getStockData"

Analyzed == SeriesDelivered /\ frame.fn = "getStockAlerts"

(* C1: for a series of n keys the formatted text holds exactly min(n, 10)  *)
(* record blocks, they are those of the min(n, 10) lexicographically       *)
(* greatest keys, each with that key's own data, and they appear in        *)
(* strictly descending key order.                                          *)
C1_TenGreatestDescending ==
    Formatted =>
        LET series == DeliveredSeries
            keys   == DOMAIN series
            recs   == LinesOf(outcome.text, "record")
        IN  /\ ~outcome.threw
            /\ Len(recs) = Min(Cardinality(keys), 10)
            /\ \A i \in 1..Len(recs) :
                  /\ recs[i].date \in keys
                  /\ Rank(recs[i].date, keys) = i - 1
                  /\ recs[i].close = series[recs[i].date].close
                  /\ recs[i].volume = series[recs[i].date].volume
            /\ \A i, j \in 1..Len(recs) :
                  i < j => LexBefore(recs[j].date, recs[i].date)

C1_Witness ==
    /\ Formatted
    /\ Cardinality(DOMAIN DeliveredSeries) > 10
    /\ Len(LinesOf(outcome.text, "record")) = 10

(* C2: the text ends with the "more data points" line if and only if the   *)
(* series has more than 10 keys, and the line states the number of keys    *)
(* minus 10.                                                               *)
C2_MoreLineIffOverTen ==
    Formatted =>
        LET n     == Cardinality(DOMAIN DeliveredSeries)
            text  == outcome.text
            more  == LinesOf(text, "more")
        IN  /\ Len(more) = (IF n > 10 THEN 1 ELSE 0)
            /\ n > 10 => /\ text[Len(text)].t = "more"
                         /\ text[Len(text)].count = n - 10

C2_Witness ==
    /\ Formatted
    /\ Cardinality(DOMAIN DeliveredSeries) = 11
    /\ outcome.text[Len(outcome.text)].t = "more"
    /\ outcome.text[Len(outcome.text)].count = 1

(* C3, as stated: a series that is present but has no entries makes        *)
(* getStockData fail.                                                      *)
C3_EmptySeriesFails ==
    (Formatted /\ DOMAIN DeliveredSeries = {}) => outcome.threw

(* C3, amended: a series that is present but has no entries is formatted   *)
(* as a normal text made of the header line alone, and the handler returns *)
(* it without an error flag.                                               *)
C3_EmptySeriesHeaderOnly ==
    (Formatted /\ DOMAIN DeliveredSeries = {}) =>
        /\ ~outcome.threw
        /\ Len(outcome.text) = 1
        /\ outcome.text[1].t = "header"
        /\ response.kind \in {"result", "contents"}
        /\ ~response.isError
        /\ response.content = outcome.text

C3_Witness ==
    /\ Formatted
    /\ DOMAIN DeliveredSeries = {}
    /\ call.entry = "get-daily-stock-data"
    /\ response.kind = "result"

(* The close of a record as the number the loop works with. *)
CloseAt(series, key) == ParseFloat(series[key].close)

(* |(cur - prev) / prev * 100| >= t in IEEE terms: false when a close is   *)
(* not a number or both are zero, true for a move away from a zero close.  *)
MoveReaches(cur, prev, t) ==
    /\ cur.k = "fin"
    /\ prev.k = "fin"
    /\ IF prev.n = 0 THEN cur.n # 0
       ELSE LET diff == cur.n * prev.d - prev.n * cur.d
            IN  (IF diff < 0 THEN -diff ELSE diff) * 100 >= t * cur.d * prev.n

(* (cur - prev) / prev * 100 >= 0, for closes that are numbers >= 0 *)
MoveIsUp(cur, prev) == cur.n * prev.d - prev.n * cur.d >= 0

(* C4: for every pair the loop compared, the report holds an alert line    *)
(* for the current date exactly when the absolute percent change reaches   *)
(* the threshold; the line says "increased" exactly when the signed change *)
(* is >= 0; and no alert line exists for any other date.                   *)
C4_AlertIffThresholdReached ==
    (Analyzed /\ Cardinality(DOMAIN DeliveredSeries) >= 2) =>
        LET series == DeliveredSeries
            alerts == LinesOf(outcome.text, "alert")
        IN  /\ \A p \in 1..Len(compared) :
                  LET cur   == CloseAt(series, compared[p][1])
                      prev  == CloseAt(series, compared[p][2])
                      lines == {i \in 1..Len(alerts) : alerts[i].date = compared[p][1]}
                  IN  /\ Cardinality(lines) =
                            (IF MoveReaches(cur, prev, frame.threshold) THEN 1 ELSE 0)
                      /\ \A i \in lines :
                            alerts[i].direction =
                               (IF MoveIsUp(cur, prev) THEN "increased" ELSE "decreased")
            /\ \A i \in 1..Len(alerts) :
                  \E p \in 1..Len(compared) : compared[p][1] = alerts[i].date

C4_Witness ==
    /\ Analyzed
    /\ \E i, j \in 1..Len(outcome.text) :
          /\ outcome.text[i].t = "alert" /\ outcome.text[i].direction = "increased"
          /\ outcome.text[j].t = "alert" /\ outcome.text[j].direction = "decreased"
    /\ Len(LinesOf(outcome.text, "alert")) < Len(compared)

(* C5: on a series of n >= 2 keys the loop compares exactly min(10, n-1)   *)
(* pairs, the i-th being the keys at positions i and i+1 of the descending *)
(* order, and the report is the one the eleven greatest keys alone give.   *)
C5_ComparesAdjacentTopPairs ==
    (Analyzed /\ Cardinality(DOMAIN DeliveredSeries) >= 2) =>
        LET series == DeliveredSeries
            keys   == DOMAIN series
            top    == {key \in keys : Rank(key, keys) <= 10}
        IN  /\ Len(compared) = Min(10, Cardinality(keys) - 1)
            /\ \A i \in 1..Len(compared) :
                  /\ compared[i][1] \in keys /\ Rank(compared[i][1], keys) = i - 1
                  /\ compared[i][2] \in keys /\ Rank(compared[i][2], keys) = i
            /\ ~outcome.threw
            /\ outcome.text = AlertsReport(SeriesObject([key \in top |-> series[key]]),
                                           frame.symbolStr, frame.threshold)

C5_Witness ==
    /\ Analyzed
    /\ Cardinality(DOMAIN DeliveredSeries) >= 12
    /\ Len(compared) = 10
    /\ Len(LinesOf(outcome.text, "alert")) > 0

(* C6: on a series of fewer than 2 records getStockAlerts returns the      *)
(* single "Not enough historical data" line as a normal result: no alert   *)
(* line, nothing thrown, no error flag on the response.                    *)
C6_TooShortIsInformational ==
    (Analyzed /\ Cardinality(DOMAIN DeliveredSeries) < 2) =>
        /\ ~outcome.threw
        /\ Len(outcome.text) = 1
        /\ outcome.text[1].t = "notEnough"
        /\ LinesOf(outcome.text, "alert") = <<>>
        /\ compared = <<>>
        /\ response.kind = "result"
        /\ ~response.isError
        /\ response.content = outcome.text

C6_Witness ==
    /\ Analyzed
    /\ Cardinality(DOMAIN DeliveredSeries) = 1
    /\ outcome.text[1].t = "notEnough"

(* C7: a report over a scanned window holds the "No significant price      *)
(* movements" line exactly when it holds no alert line; the line is the    *)
(* last one and states the threshold and the number of days scanned.       *)
C7_NoMovementIffNoAlert ==
    (Analyzed /\ Cardinality(DOMAIN DeliveredSeries) >= 2) =>
        LET text   == outcome.text
            alerts == LinesOf(text, "alert")
            none   == LinesOf(text, "noMovement")
        IN  /\ Len(none) = (IF Len(alerts) = 0 THEN 1 ELSE 0)
            /\ Len(none) = 1 =>
                  /\ text[Len(text)] = none[1]
                  /\ none[1].threshold = frame.threshold
                  /\ none[1].days = Min(10, Cardinality(DOMAIN DeliveredSeries) - 1)
                  /\ none[1].days = Len(compared)

C7_Witness ==
    /\ Analyzed
    /\ Len(compared) = 10
    /\ LinesOf(outcome.text, "noMovement") # <<>>
    /\ LinesOf(outcome.text, "alert") = <<>>

(* C8: an error raised while a tool is served comes back as a result with  *)
(* isError set whose content is the error text, and nothing is thrown past *)
(* the handler; an error raised while the resource is served is thrown to  *)
(* the transport and no contents are returned.                             *)
C8_ToolsCatchResourceRethrows ==
    (pc = "done" /\ outcome.threw) =>
        IF call.entry \in ToolNames
        THEN /\ response.kind = "result"
             /\ response.isError
             /\ response.thrown = <<>>
             /\ Len(response.content) = 1
             /\ response.content[1].t = "error"
             /\ response.content[1].message =
                   <<ToolErrorPrefix(call.entry)>> \o outcome.error.message
        ELSE /\ call.entry = "resource"
             /\ response.kind = "thrown"
             /\ response.content = <<>>
             /\ response.thrown =
                   <<"Failed to fetch stock data: ">> \o outcome.error.message

C8_Witness ==
    /\ pc = "done"
    /\ outcome.threw
    /\ call.entry = "get-stock-alerts"
    /\ response.isError
    /\ ~reply.ok

(* C9: getStockData requests TIME_SERIES_DAILY and expects the series      *)
(* under "Time Series (Daily)" exactly when the normalized interval is     *)
(* "daily"; otherwise it requests TIME_SERIES_INTRADAY with that interval  *)
(* and expects "Time Series (<interval>)"; a text is returned only from a  *)
(* series held under the expected key.                                     *)
C9_EndpointAndKeyFollowInterval ==
    (pc # "idle" /\ frame.fn = "getStockData") =>
        LET req == requests[Len(requests)]
        IN  /\ frame.intervalStr = FirstIfArray(call.interval)
            /\ (frame.intervalStr = "daily") <=>
                  (/\ req.function = "TIME_SERIES_DAILY"
                   /\ frame.timeSeriesKey = <<"Time Series (", "Daily", ")">>)
            /\ frame.intervalStr = "daily" => req.interval = <<>>
            /\ frame.intervalStr # "daily" =>
                  /\ req.function = "TIME_SERIES_INTRADAY"
                  /\ req.interval = <<frame.intervalStr>>
                  /\ frame.timeSeriesKey = <<"Time Series (", frame.intervalStr, ")">>
            /\ (pc = "done" /\ ~outcome.threw) =>
                  /\ frame.timeSeriesKey \in DOMAIN reply.data.series
                  /\ \A i \in 1..Len(outcome.text) :
                        outcome.text[i].t = "record" =>
                           outcome.text[i].date \in
                              DOMAIN reply.data.series[frame.timeSeriesKey].entries

C9_Witness ==
    /\ pc = "done"
    /\ frame.fn = "getStockData"
    /\ frame.intervalStr = "60min"
    /\ ~outcome.threw
    /\ Len(outcome.text) > 1

(* C10: when the GET fails, the error getStockData and getStockAlerts      *)
(* throw is "API request failed: " followed by the underlying reason.      *)
C10_FailureIsWrapped ==
    (pc = "done" /\ ~reply.ok) =>
        /\ outcome.threw
        /\ outcome.error.message = <<"API request failed: ">> \o reply.error.message

(* The body of the reply without its rate-limit note. *)
WithoutNote(http) == [http EXCEPT !.data.note = <<>>]

(* C11: when the body of a tool's upstream reply carries a "Note", a       *)
(* warning is logged and the tool's response is the one the same reply     *)
(* without the note gives.                                                 *)
C11_NoteIsLoggedAndHarmless ==
    (/\ pc = "done"
     /\ call.entry \in ToolNames
     /\ reply.ok
     /\ reply.data.kind = "object"
     /\ reply.data.note # <<>>) =>
        /\ warnings >= 1
        /\ response = HandlerResponse(call.entry, SettledAs(frame, WithoutNote(reply)))

(* C12: no upstream request carries an empty symbol; a call whose symbol   *)
(* is empty ends without any request.                                      *)
C12_NoRequestWithEmptySymbol ==
    /\ \A i \in 1..Len(requests) : requests[i].symbol # <<>>
    /\ (pc # "idle" /\ FirstIfArray(call.symbol) = <<>>) => requests = <<>>

(* The first element of a list argument, the argument itself otherwise. *)
FirstOf(arg) == IF arg.isArray THEN Head(arg.items) ELSE arg.items[1]

(* The locals the function has when every argument of the call is given   *)
(* as a scalar.                                                            *)
ScalarFrame(c) ==
    IF frame.fn = "getStockData"
    THEN StockDataFrame(Scalar(FirstOf(c.symbol)), Scalar(FirstOf(c.interval)),
                        Scalar(FirstOf(c.outputsize)))
    ELSE AlertsFrame(Scalar(FirstOf(c.symbol)), c.threshold)

HasListArgument(c) == c.symbol.isArray \/ c.interval.isArray \/ c.outputsize.isArray

(* C13: when symbol, interval or outputsize is a list, getStockData and    *)
(* getStockAlerts send the request and return the text (or throw the       *)
(* error) of the call with the first elements as scalars.                  *)
C13_ListMeansFirstElement ==
    (pc # "idle" /\ HasListArgument(call)) =>
        /\ requests = <<UrlOf(ScalarFrame(call))>>
        /\ requests[1].symbol = FirstOf(call.symbol)
        /\ pc = "done" => outcome = SettledAs(ScalarFrame(call), reply)

C13_Witness ==
    /\ pc = "done"
    /\ call.symbol.isArray
    /\ Len(call.symbol.items) = 2
    /\ call.symbol.items[1] # call.symbol.items[2]
    /\ ~outcome.threw
    /\ Len(outcome.text) > 1

StartupFailed ==
    \/ ~proc.apiKey /\ proc.phase # "loading"
    \/ \E i \in 1..Len(proc.stderr) : proc.stderr[i] = "Error starting server:"

Ran == \E i \in 1..Len(proc.stderr) : proc.stderr[i] = RunningLine

ExpectedKey ==
    IF frame.fn = "getStockAlerts" \/ frame.intervalStr = "daily"
    THEN <<"Time Series (", "Daily", ")">>
    ELSE <<"Time Series (", frame.intervalStr, ")">>

(* The GET succeeded with an object that reports no error and holds no     *)
(* series under the expected key.                                          *)
SeriesKeyLacking ==
    /\ pc = "done"
    /\ reply.ok
    /\ reply.data.kind = "object"
    /\ reply.data.err = <<>>
    /\ \/ ExpectedKey \notin DOMAIN reply.data.series
       \/ reply.data.series[ExpectedKey].isNull

(* C16: a successful reply without the expected series key makes           *)
(* getStockData and getStockAlerts throw "No time series data found in     *)
(* the response"; no report text is built and no closes are compared.      *)
C16_MissingSeriesFails ==
    SeriesKeyLacking =>
        /\ outcome.threw
        /\ outcome.error.message = <<"No time series data found in the response">>
        /\ outcome.text = <<>>
        /\ compared = <<>>
        /\ IF call.entry = "resource"
           THEN response.kind = "thrown" /\ response.content = <<>>
           ELSE response.isError /\ Len(response.content) = 1
                /\ response.content[1].t = "error"

C16_Witness ==
    /\ SeriesKeyLacking
    /\ frame.fn = "getStockAlerts"
    /\ DOMAIN reply.data.series = {<<"Time Series (", "5min", ")">>}
    /\ ~reply.data.series[<<"Time Series (", "5min", ")">>].isNull
    /\ Cardinality(DOMAIN reply.data.series[<<"Time Series (", "5min", ")">>].entries) = 2
    /\ outcome.threw

(* What get-stock-data returns for the symbol and interval of the running  *)
(* call, the given outputsize and the reply the call received.             *)
StockDataToolResponse(outputsize) ==
    ToolResponse("get-stock-data",
                 getStockDataSettled(StockDataFrame(Scalar(FirstOf(call.symbol)),
                                                    Scalar(frame.intervalStr),
                                                    Scalar(outputsize)),
                                     reply))

(* C17: a read of stock://{symbol}/{interval} always requests outputsize   *)
(* "compact", and the text it returns is the text get-stock-data returns   *)
(* for that symbol, that interval and the same upstream reply.             *)
C17_ResourceMatchesTool ==
    (pc # "idle" /\ call.entry = "resource") =>
        /\ \A i \in 1..Len(requests) : requests[i].outputsize = "compact"
        /\ (pc = "done" /\ ~outcome.threw /\ frame.intervalStr \in ToolIntervals) =>
              /\ response.kind = "contents"
              /\ \A outputsize \in {"compact", "full"} :
                    response.content = StockDataToolResponse(outputsize).content

C17_Witness ==
    /\ pc = "done"
    /\ call.entry = "resource"
    /\ frame.intervalStr = "5min"
    /\ ~outcome.threw
    /\ Len(response.content) = 3

(* The lines of a report that name the symbol. *)
NamesSymbol(line) == line.t \in {"header", "alertsHeader", "notEnough"}

(* C19: the upstream request carries the symbol exactly as supplied, and   *)
(* every line of a returned report that names the symbol (the formatted    *)
(* header, the alert header, the insufficient-history line) shows it       *)
(* upper-cased.                                                            *)
C19_SymbolUpperOnlyInText ==
    /\ \A i \in 1..Len(requests) : requests[i].symbol = FirstOf(call.symbol)
    /\ (pc = "done" /\ ~outcome.threw) =>
          \A i \in 1..Len(outcome.text) :
              NamesSymbol(outcome.text[i]) =>
                  outcome.text[i].symbol = ToUpperCase(FirstOf(call.symbol))

(* shown is text with every lower-case letter replaced by its capital. *)
IsUpperCased(text, shown) ==
    /\ Len(shown) = Len(text)
    /\ \A i \in 1..Len(text) :
          IF \E k \in 1..26 : Lower[k] = text[i]
          THEN \E k \in 1..26 : Lower[k] = text[i] /\ shown[i] = Upper[k]
          ELSE shown[i] = text[i]

(* C20: the first line of the formatted text is the header; it names the   *)
(* symbol upper-cased and the interval label, which is "Daily" exactly     *)
(* when the interval is "daily" and the interval as given otherwise.       *)
C20_HeaderNamesSymbolAndLabel ==
    Formatted =>
        /\ Len(outcome.text) >= 1
        /\ outcome.text[1].t = "header"
        /\ IsUpperCased(FirstOf(call.symbol), outcome.text[1].symbol)
        /\ outcome.text[1].label =
              (IF FirstOf(call.interval) = "daily" THEN "Daily"
               ELSE FirstOf(call.interval))
        /\ \A i \in 2..Len(outcome.text) : outcome.text[i].t # "header"

C20_Witness ==
    /\ Formatted
    /\ FirstOf(call.symbol) = <<"i", "b", "m">>
    /\ FirstOf(call.interval) = "daily"
    /\ outcome.text[1].symbol = <<"I", "B", "M">>
    /\ outcome.text[1].label = "Daily"
    /\ Len(outcome.text) > 1

(* The response the handler of call c gives when it runs alone and its GET *)
(* settles as http.                                                        *)
Alone(c, http) == HandlerResponse(c.entry, SettledAs(FrameOfCall(c), http))

(* One invocation's state is what its own call and its own reply make it.  *)
OwnStateOnly(ipc, icall, iframe, irequests, ireply, iresponse) ==
    /\ ipc = "idle" =>
          /\ icall = NoCall /\ iframe = NoFrame /\ irequests = <<>>
          /\ ireply = NoReply /\ iresponse = NoResponse
    /\ ipc # "idle" =>
          /\ iframe = FrameOfCall(icall)
          /\ irequests = <<UrlOf(FrameOfCall(icall))>>
    /\ ipc = "awaiting" => ireply = NoReply /\ iresponse = NoResponse
    /\ ipc = "done" => iresponse = Alone(icall, ireply)

(* C18: with two tool invocations in flight, in every interleaving of      *)
(* their entries and settlements each one's request and response are      *)
(* those it produces alone on its own arguments and its own reply, and     *)
(* neither holds anything the other wrote.                                 *)
C18_ConcurrentCallsDoNotInterfere ==
    /\ OwnStateOnly(pc, call, frame, requests, reply, response)
    /\ OwnStateOnly(peer.pc, peer.call, peer.frame, peer.requests, peer.reply,
                    peer.response)

(* Both invocations are done; they differ in function, symbol and reply.   *)
C18_Witness ==
    /\ pc = "done" /\ peer.pc = "done"
    /\ call.entry = "get-stock-alerts" /\ peer.call.entry = "get-stock-data"
    /\ call.symbol # peer.call.symbol
    /\ reply.ok /\ ~peer.reply.ok
    /\ ~outcome.threw /\ peer.outcome.threw
    /\ response # peer.response

(* C21: the formatted text is a function of the series as a mapping: it    *)
(* is the text formatTimeSeriesData gives, on every evaluation, for the    *)
(* same records with the keys listed in any other order.                   *)
C21_FormatIgnoresKeyOrder ==
    Formatted =>
        \A order \in Orders(DOMAIN DeliveredSeries) :
            formatTimeSeriesData(OrderedObject(DeliveredSeries, order),
                                 frame.symbolStr, frame.intervalStr) = outcome.text

(* A series of four keys delivered neither ascending nor descending. *)
C21_Witness ==
    /\ Formatted
    /\ Cardinality(DOMAIN DeliveredSeries) = 4
    /\ LET order == GetProperty(reply.data, frame.timeSeriesKey).order
       IN  /\ LexBefore(order[1], order[2])
           /\ LexBefore(order[3], order[2])
    /\ Len(outcome.text) = 5

(* C22: for AAPL, threshold 5 and the daily series with close 150.00 on    *)
(* 2024-01-03 and 142.50 on 2024-01-02, the report holds exactly one alert *)
(* line: for 2024-01-03, "increased", by "5.26" percent, from "142.5" to   *)
(* "150".                                                                  *)
C22_AaplScenario ==
    (/\ Analyzed
     /\ frame.symbolStr = <<"A", "A", "P", "L">>
     /\ frame.threshold = 5
     /\ DOMAIN DeliveredSeries = {Jan02, Jan03}
     /\ DeliveredSeries[Jan03].close = C150_00
     /\ DeliveredSeries[Jan02].close = C142_50) =>
        /\ ~outcome.threw
        /\ LinesOf(outcome.text, "alert") =
              <<[t |-> "alert", date |-> Jan03, direction |-> "increased",
                 percent |-> <<"5", ".", "2", "6">>,
                 from |-> <<"1", "4", "2", ".", "5">>,
                 to |-> <<"1", "5", "0">>]>>
        /\ LinesOf(outcome.text, "noMovement") = <<>>
        /\ Len(outcome.text) = 2
        /\ ~response.isError /\ response.content = outcome.text

C22_Witness ==
    /\ Analyzed
    /\ call.symbol = Scalar(<<"A", "A", "P", "L">>)
    /\ call.threshold = 5
    /\ DOMAIN DeliveredSeries = {Jan02, Jan03}
    /\ DeliveredSeries[Jan03].close = C150_00
    /\ DeliveredSeries[Jan02].close = C142_50
    /\ Len(LinesOf(outcome.text, "alert")) = 1

(* C23: of any two alert lines of a report the one printed earlier has the *)
(* lexicographically greater date key, so the lines run from the most      *)
(* recent date down and no date has two lines; the alert lines stand       *)
(* together right after the header.                                        *)
C23_AlertsMostRecentFirst ==
    Analyzed =>
        LET alerts == LinesOf(outcome.text, "alert")
        IN  /\ \A i, j \in 1..Len(alerts) :
                  i < j => LexBefore(alerts[j].date, alerts[i].date)
            /\ \A i \in 1..Len(alerts) : outcome.text[i + 1] = alerts[i]

C23_Witness ==
    /\ Analyzed
    /\ Len(LinesOf(outcome.text, "alert")) >= 3
    /\ Len(LinesOf(outcome.text, "alert")) < Len(compared)
    /\ \E i \in 1..Len(outcome.text) :
          outcome.text[i].t = "alert" /\ outcome.text[i].date = NatToStr(10)

(* A tool invocation that has ended holds one outcome: a text result, or   *)
(* an error-flagged result carrying one error text.                        *)
EndedWithOneOutcome ==
    /\ response.kind = "result"
    /\ response.isError = outcome.threw
    /\ IF response.isError
       THEN Len(response.content) = 1 /\ response.content[1].t = "error"
       ELSE response.content = outcome.text

ToolPending == pc = "awaiting" /\ call.entry \in ToolNames

ToolEnded == pc = "done" /\ call.entry \in ToolNames

(* C24: given that its GET eventually settles, every tool invocation       *)
(* eventually ends; it ends with exactly one outcome, which never changes  *)
(* afterwards, and it is no longer pending once its GET has settled.       *)
C24_InvocationEnds ==
    /\ [](ToolEnded => EndedWithOneOutcome)
    /\ [](ToolPending => reply = NoReply /\ response = NoResponse)
    /\ [][ToolEnded => (ToolEnded' /\ response' = response)]_vars
    /\ (ToolPending ~> ToolEnded)

C24_Witness ==
    /\ ToolEnded
    /\ ~reply.ok
    /\ reply.error.message = <<"timeout of 1000000ms exceeded">>
    /\ response.isError

(* The GET resolved with an object that carries an "Error Message". *)
ErrorMessageDelivered ==
    /\ pc = "done"
    /\ reply.ok
    /\ reply.data.kind = "object"
    /\ reply.data.err # <<>>

(* C25: whenever the reply carries an "Error Message", getStockData and    *)
(* getStockAlerts throw an error with exactly that message, whatever else  *)
(* the reply holds; no text is formatted and no closes are compared.       *)
C25_ErrorMessageFirst ==
    ErrorMessageDelivered =>
        /\ outcome.threw
        /\ outcome.error.message = reply.data.err
        /\ outcome.text = <<>>
        /\ compared = <<>>
        /\ IF call.entry = "resource"
           THEN /\ response.kind = "thrown"
                /\ response.thrown = <<"Failed to fetch stock data: ">> \o reply.data.err
           ELSE /\ response.isError
                /\ Len(response.content) = 1
                /\ response.content[1].message =
                      <<ToolErrorPrefix(call.entry)>> \o reply.data.err

(* The reply holds the error message beside a series of two records under  *)
(* the expected key and a note.                                            *)
C25_Witness ==
    /\ ErrorMessageDelivered
    /\ frame.fn = "getStockData"
    /\ reply.data.note # <<>>
    /\ ~GetProperty(reply.data, frame.timeSeriesKey).isNull
    /\ Cardinality(DOMAIN DeliveredSeries) = 2
    /\ outcome.threw

(* Two records were delivered whose closes are the same text and parse to  *)
(* one number other than zero, and the threshold is 0.                     *)
FlatPairAtThresholdZero ==
    /\ Analyzed
    /\ frame.threshold = 0
    /\ Cardinality(DOMAIN DeliveredSeries) = 2
    /\ \A a, b \in DOMAIN DeliveredSeries :
          DeliveredSeries[a].close = DeliveredSeries[b].close
    /\ \A a \in DOMAIN DeliveredSeries :
          CloseAt(DeliveredSeries, a).k = "fin" /\ CloseAt(DeliveredSeries, a).n # 0

(* C26: with threshold 0, two records with identical closes give exactly   *)
(* one alert line, for the later key, "increased" by "0.00" percent, and   *)
(* no "No significant price movements" line.                               *)
C26_ZeroMoveIsAnAlert ==
    FlatPairAtThresholdZero =>
        LET alerts == LinesOf(outcome.text, "alert")
        IN  /\ Len(alerts) = 1
            /\ alerts[1].direction = "increased"
            /\ alerts[1].percent = <<"0", ".", "0", "0">>
            /\ alerts[1].from = alerts[1].to
            /\ \A key \in DOMAIN DeliveredSeries :
                  key = alerts[1].date \/ LexBefore(key, alerts[1].date)
            /\ LinesOf(outcome.text, "noMovement") = <<>>
            /\ Len(outcome.text) = 2

C26_Witness ==
    /\ FlatPairAtThresholdZero
    /\ DOMAIN DeliveredSeries = {NatToStr(2), NatToStr(10)}
    /\ DeliveredSeries[NatToStr(2)].close = C106
    /\ outcome.text[2].t = "alert"
    /\ outcome.text[2].date = NatToStr(2)

(* The calls among the first n of the log that are getInstance(context)    *)
(* with no clearInstances between them and call n.                         *)
SameEpochGets(n, context) ==
    {i \in 1..(n - 1) :
        /\ loggers.log[i].op = "getInstance"
        /\ loggers.log[i].context = context
        /\ \A k \in (i + 1)..(n - 1) : loggers.log[k].op # "clearInstances"}

(* The objects that existed before call n of the log: those the module's   *)
(* exports built and those the earlier calls returned.                     *)
ObjectsBefore(n) ==
    (1..Len(ExportedLoggers.objects))
    \cup {loggers.log[i].result : i \in {k \in 1..(n - 1) :
                                            loggers.log[k].op # "clearInstances"}}

(* Call n of the log found the Logger the module's exports registered:    *)
(* no clearInstances came before it.                                       *)
FromExports(n) ==
    /\ loggers.log[n].context \in DOMAIN ExportedLoggers.instances
    /\ \A k \in 1..(n - 1) : loggers.log[k].op # "clearInstances"

(* C27: the registry holds at most one Logger per context; a getInstance   *)
(* returns the Logger of the earlier getInstance for that context when no  *)
(* clearInstances lies between them, with the config that one was built    *)
(* with; create returns a Logger no call returned before and leaves the    *)
(* registry alone; and the first getInstance for a context after a         *)
(* clearInstances returns a Logger built by that call.                     *)
C27_OneLoggerPerContext ==
    LET log == loggers.log
    IN  /\ \A c, d \in DOMAIN loggers.instances :
              loggers.instances[c] = loggers.instances[d] => c = d
        /\ \A c \in DOMAIN loggers.instances :
              loggers.objects[loggers.instances[c]].context = c
        /\ \A n \in 1..Len(log) :
              LET same  == SameEpochGets(n, log[n].context)
                  built == loggers.objects[log[n].result]
              IN  /\ (log[n].op = "getInstance") =>
                        /\ \A i \in same : log[i].result = log[n].result
                        /\ FromExports(n) =>
                              /\ log[n].result = ExportedLoggers.instances[log[n].context]
                              /\ built = ExportedLoggers.objects[log[n].result]
                        /\ (~FromExports(n) /\ same # {}) =>
                              \E i \in same :
                                  /\ \A j \in same : i <= j
                                  /\ built.config = log[i].config
                        /\ (~FromExports(n) /\ same = {}) =>
                              /\ log[n].result \notin ObjectsBefore(n)
                              /\ built = [context |-> log[n].context,
                                          config |-> log[n].config]
                  /\ (log[n].op = "create") =>
                        /\ log[n].result \notin ObjectsBefore(n)
                        /\ built = [context |-> log[n].context,
                                    config |-> log[n].config]
                        /\ \A c \in DOMAIN loggers.instances :
                              loggers.instances[c] # log[n].result
                        /\ \A i \in (n + 1)..Len(log) : log[i].result # log[n].result

(* getInstance("App") twice with different configs around a create("App"), *)
(* after a clearInstances.                                                 *)
C27_Witness ==
    /\ Len(loggers.log) = 4
    /\ loggers.log[1].op = "clearInstances"
    /\ loggers.log[2] = Logged("getInstance", "App", <<>>, 6)
    /\ loggers.log[3].op = "create" /\ loggers.log[3].context = "App"
    /\ loggers.log[4].op = "getInstance" /\ loggers.log[4].context = "App"
    /\ loggers.log[4].config = <<"debug">>
    /\ loggers.log[4].result = 6

====
